---- MODULE Spec2Model ----
(***************************************************************************)
(* The update tab (check, update, backup, restore) and the hidden-file     *)
(* scan tab of IPC-Toyz, src/main.go.                                      *)
(*                                                                         *)
(* Threads.  The toolkit runs button callbacks one at a time on its event  *)
(* thread: a tap that arrives while a callback is still running waits in   *)
(* the toolkit's queue (evq) and is run when the callback returns.         *)
(* doCheck and doUpdate start a goroutine for the tree walk; createBackup, *)
(* performFilesUpdate and doRestore run inside the callback itself.        *)
(***************************************************************************)
EXTENDS Integers, Sequences, FiniteSets, TLC

\* ------------------------------------------------------------------ bounds
MaxQueue   == 1   \* taps the toolkit holds while a callback runs
MaxWorkers == 2   \* check goroutines, with their confirm dialogs, alive at once
MaxTicks   == 2   \* seconds that pass in one behaviour
MaxScans   == 2   \* scan goroutines started in one behaviour
MaxEntries == 2   \* directory entries under one scan root
NumPaths   == 2   \* files a tree can hold

\* ------------------------------------------------------------ file trees
Paths    == 1 .. NumPaths               \* relative paths, numbered in
                                        \* filepath.WalkDir's lexical order
Contents == {<<>>, <<1>>, <<2>>}        \* file data: byte strings, sizes 0, 1, 1
Trees    == UNION {[S -> Contents] : S \in SUBSET Paths}
NoTree   == [p \in {} |-> <<>>]

Put(tree, p, data) == [q \in DOMAIN tree \cup {p} |-> IF q = p THEN data ELSE tree[q]]
Del(tree, p)       == [q \in DOMAIN tree \ {p} |-> tree[q]]

RECURSIVE SortedSeq(_)
\* the members of a set of paths in ascending (walk) order
SortedSeq(S) ==
  IF S = {} THEN <<>>
  ELSE LET m == CHOOSE x \in S : \A y \in S : x <= y
       IN  <<m>> \o SortedSeq(S \ {m})

VARIABLES
  source,        \* files under updateSourcePath
  srcReachable,  \* whether os.Lstat(updateSourcePath) succeeds
  target,        \* files under updateTargetPath
  clock,         \* time.Now(), in seconds
  backupDir,     \* files under updateBackupDir: name -> stored entries
  selected,      \* backupList.Selected
  made,          \* the name in the last "Backup hoàn tất: " log line
  ui,            \* the callback the event thread is running
  evq,           \* taps waiting for the event thread
  workers,       \* the goroutines of doCheck / doUpdate and their dialogs
  status,        \* statusLabel
  msg,           \* the last showMsg
  ipcasUp,       \* whether ipcas2.exe runs
  tally,         \* what the last copy loop really did
  scanDirs,      \* the two VirtualStore roots scanFiles walks
  scanning,      \* the scanning flag
  stopChan,      \* the stopChan global
  closed,        \* how often each channel was closed
  scanners,      \* the goroutines of scanBtn
  files,         \* the files global of the scan tab
  picked,        \* the places of the list whose FileItem has selected set
  removed,          \* the listed files removed from the disk
  lastDiff,      \* what the last finished walk returned, and after what
  configFile,    \* updateConfigFile: whether it exists, its bytes, and
                 \* whether os.WriteFile to it succeeds
  sourceText,    \* sourceEntry.Text
  updateSourcePath, \* the updateSourcePath global
  saved,         \* the text the last saveConfig was called with
  boots          \* how often the program was started again

updVars  == <<source, srcReachable, target, clock, backupDir, selected, made, ui, evq,
              workers, status, msg, ipcasUp, tally, lastDiff>>
scanVars == <<scanDirs, scanning, stopChan, closed, scanners, files, picked, removed>>
cfgVars  == <<configFile, sourceText, updateSourcePath, saved, boots>>
vars     == <<updVars, scanVars, cfgVars>>

\* ------------------------------------------------------ Content Differ
\* md5.Sum rendered by %x: a non-empty digest, distinct for distinct data
Md5(data) == <<Len(data)>> \o data

\* fileHash: "" when the file cannot be read
fileHash(tree, p, readable) ==
  IF p \in DOMAIN tree /\ readable THEN Md5(tree[p]) ELSE <<>>

MutNeedUpdate(src, tgt, p, srcReadable, tgtReadable) ==
  IF p \notin DOMAIN tgt THEN TRUE
  ELSE IF Len(src[p]) # Len(tgt[p]) THEN TRUE
  ELSE fileHash(src, p, srcReadable) # fileHash(tgt, p, tgtReadable)
\* the needUpdate decision of getFilesToUpdate for one source file
NeedUpdate(src, tgt, p, srcReadable, tgtReadable) ==
  IF p \notin DOMAIN tgt THEN TRUE                      \* tgtErr != nil
  ELSE IF Len(src[p]) # Len(tgt[p]) THEN TRUE           \* sizes differ
  ELSE LET srcHash == fileHash(src, p, srcReadable)
           tgtHash == fileHash(tgt, p, tgtReadable)
       IN  srcHash # <<>> /\ tgtHash # <<>> /\ srcHash # tgtHash

\* whether the callback gets to the else branch, the one that calls
\* fileHash on both files: the target exists and the sizes are equal
Hashes(src, tgt, p) == p \in DOMAIN tgt /\ Len(src[p]) = Len(tgt[p])

\* what the WalkDir callback returns for an entry it does not compare:
\* "if err != nil || d.IsDir() { return nil }"
WalkFn(err, isDir) == IF err # "nil" \/ isDir THEN "nil" ELSE "nil"

\* filepath.WalkDir(updateSourcePath, fn): when Lstat of the root fails the
\* callback is called once with that error and WalkDir returns what it returns
WalkRootErr == IF srcReachable THEN "nil" ELSE WalkFn("unreachable", FALSE)
SourceWalk  == IF srcReachable THEN SortedSeq(DOMAIN source) ELSE <<>>

\* unread: the visited files whose target counterpart could not be read;
\* hashed: the visited files fileHash was called for
FreeWorker == [pc |-> "free", kind |-> "none", pos |-> 0, toUpdate |-> <<>>,
               clean |-> TRUE, after |-> FALSE, unread |-> {}, hashed |-> {}]
\* a stored archive: its entries, and what the target was when it was made
NoArch     == [entries |-> NoTree, snap |-> NoTree, full |-> FALSE, logged |-> {}]
\* steps: what the running callback did before its loop, in the order of
\* its calls; log: the addLog line of each pass of its loop; prog: the
\* numerators of the fractions its loop gave to progressBar.SetValue
IdleUi     == [op |-> "idle", files |-> <<>>, i |-> 0, arch |-> NoArch, fresh |-> FALSE,
               steps |-> <<>>, log |-> <<>>, prog |-> <<>>]
Line(name, line) == [name |-> name, line |-> line]
NoTally    == [op |-> "none", ok |-> 0, failed |-> 0, clean |-> FALSE]
NoMsg      == [title |-> "none", n |-> 0]

NoDiff     == [after |-> FALSE, files |-> <<>>]

Idle == ui.op = "idle"

\* the results an I/O call can have: every one, or success only when the
\* specification leaves I/O failures out
Oks(faults)        == IF faults THEN BOOLEAN ELSE {TRUE}
Outcomes(faults, errs) == IF faults THEN {"ok"} \cup errs ELSE {"ok"}
Unreadable(faults, tree) == IF faults THEN SUBSET DOMAIN tree ELSE {{}}

\* --------------------------------------------------------- Backup Archiver
Retention  == 3                        \* "for i := 3; i < len(bkFiles); i++"
StartClock == 58                       \* the second the behaviour starts in

BkPrefix  == <<66, 75, 95>>            \* "BK_"
ZipSuffix == <<46, 122, 105, 112>>     \* ".zip"
NoName    == <<>>                      \* ""

\* time.Format("20060102_150405"), its minute and second fields: two
\* zero-padded decimal digits each (the fields before them do not change
\* within the modelled minutes)
Format(t) ==
  <<48 + ((t \div 60) \div 10), 48 + ((t \div 60) % 10),
    48 + ((t % 60) \div 10),   48 + ((t % 60) % 10)>>

\* fmt.Sprintf("BK_%s.zip", time.Now().Format(...))
backupName(t) == BkPrefix \o Format(t) \o ZipSuffix

HasPrefix(s, pre) == Len(s) >= Len(pre) /\ SubSeq(s, 1, Len(pre)) = pre
HasSuffix(s, suf) ==
  Len(s) >= Len(suf) /\ SubSeq(s, Len(s) - Len(suf) + 1, Len(s)) = suf

\* the test both directory listings apply to an entry name
IsBackupName(n) == HasPrefix(n, BkPrefix) /\ HasSuffix(n, ZipSuffix)

RECURSIVE StrLess(_, _)
\* Go's < on strings: bytewise, a proper prefix first
StrLess(a, b) ==
  IF b = <<>> THEN FALSE
  ELSE IF a = <<>> THEN TRUE
  ELSE IF Head(a) # Head(b) THEN Head(a) < Head(b)
  ELSE StrLess(Tail(a), Tail(b))

RECURSIVE SortReverse(_)
\* sort.Sort(sort.Reverse(sort.StringSlice(names)))
SortReverse(S) ==
  IF S = {} THEN <<>>
  ELSE LET m == CHOOSE x \in S : \A y \in S \ {x} : StrLess(y, x)
       IN  <<m>> \o SortReverse(S \ {m})

\* the names a listing of the backup directory keeps, newest first
ListBackups(dir) == SortReverse({n \in DOMAIN dir : IsBackupName(n)})

\* the first index (from 1) of the sorted listing the pruning loop removes
PruneFrom == Retention + 1

\* the names the pruning loop of createBackup passes to os.Remove
PruneNames(dir) ==
  LET bkFiles == ListBackups(dir)
  IN  {bkFiles[i] : i \in PruneFrom .. Len(bkFiles)}

\* the files the WalkDir callback of createBackup names in a log line when
\* w.Create or os.ReadFile fails: both branches are a bare "return nil"
FailLog(tgt, unreadable) == {}

\* the entries zip.Writer receives from the WalkDir over the target: an
\* entry is created before the file is read, so a file that cannot be
\* read is stored with no data
ArchiveOf(tgt, unreadable) ==
  [entries |-> [p \in DOMAIN tgt |-> IF p \in unreadable THEN <<>> ELSE tgt[p]],
   snap    |-> tgt,
   full    |-> unreadable = {},
   logged  |-> FailLog(tgt, unreadable)]

\* the directory after createBackup at second now.  os.Create truncates a
\* file of the same name.  zipFile stays open until the deferred Close, so
\* the os.Remove of the new archive itself, whose error is dropped, deletes
\* it or is refused by the system (removeOpen)
createBackup(dir, tgt, now, unreadable, removeOpen) ==
  LET name    == backupName(now)
      written == Put(dir, name, ArchiveOf(tgt, unreadable))
      gone    == {n \in PruneNames(written) : n # name \/ removeOpen}
  IN  [n \in DOMAIN written \ gone |-> written[n]]

\* the outcomes of that os.Remove: it is called on the new archive only
\* when the pruning loop reaches its name
OpenRemovals(dir, now) ==
  IF backupName(now) \in PruneNames(Put(dir, backupName(now), NoArch))
    THEN BOOLEAN ELSE {TRUE}

\* refreshBackups: backupList.Selected after the listing
refreshBackups(dir, sel) ==
  IF ListBackups(dir) = <<>> THEN sel ELSE ListBackups(dir)[1]

\* ------------------------------------------------------- the event thread
Ev(kind)     == [kind |-> kind, w |-> 0]
DlgEv(kind, w) == [kind |-> kind, w |-> w]

\* no goroutine walks and no confirm dialog is open
NoWorkers == \A w \in 1 .. MaxWorkers : workers[w].pc = "free"

\* the event thread starts the callback of tap e: a fresh tap on a free
\* thread, or the oldest waiting tap once the thread is free again
Take(e) ==
  /\ Idle
  /\ \/ /\ evq = <<>>
        /\ e.w # 0 => workers[e.w].pc = "dialog"
        /\ evq' = evq
     \/ /\ evq # <<>>
        /\ Head(evq) = e
        /\ evq' = Tail(evq)

\* "go func() { files, err := getFilesToUpdate() ... }()"
Spawn(kind) ==
  /\ \E w \in 1 .. MaxWorkers : workers[w].pc = "free"
  /\ LET w == CHOOSE v \in 1 .. MaxWorkers :
                 /\ workers[v].pc = "free"
                 /\ \A u \in 1 .. v - 1 : workers[u].pc # "free"
     IN  workers' = [workers EXCEPT ![w] =
                       [pc |-> "walk", kind |-> kind, pos |-> 1,
                        toUpdate |-> <<>>, clean |-> TRUE, after |-> tally.clean,
                        unread |-> {}, hashed |-> {}]]

\* ------------------------------------------------------------- configuration

MaxText  == 2      \* longest text typed into the source entry
MaxBoots == 2      \* how often the program is started again

Space == 32
Chars == {Space, 97}
Texts == UNION {[1 .. n -> Chars] : n \in 0 .. MaxText}

\* the initial value of updateSourcePath, as one symbol
DefaultSource == <<92>>
NoSave        == <<0>>

NoConfig(writable) == [present |-> FALSE, data |-> <<>>, writable |-> writable]

\* unicode.IsSpace on the Latin-1 range
IsSpace(c) == c \in {9, 10, 11, 12, 13, 32, 133, 160}

RECURSIVE TrimLeft(_)
TrimLeft(t) == IF t # <<>> /\ IsSpace(Head(t)) THEN TrimLeft(Tail(t)) ELSE t

RECURSIVE TrimRight(_)
TrimRight(t) ==
  IF t # <<>> /\ IsSpace(t[Len(t)]) THEN TrimRight(SubSeq(t, 1, Len(t) - 1)) ELSE t

TrimSpace(t) == TrimRight(TrimLeft(t))

\* os.WriteFile on the config file: creates or truncates it, or fails
\* and leaves it as it was
WriteFile(file, data) ==
  IF file.writable THEN [file EXCEPT !.present = TRUE, !.data = data] ELSE file

\* the saveConfig closure: the results of MkdirAll and WriteFile are
\* dropped
saveConfig ==
  /\ updateSourcePath' = sourceText
  /\ configFile' = WriteFile(configFile, sourceText)
  /\ saved' = sourceText
  /\ UNCHANGED <<sourceText, boots>>

\* the "Lưu cấu hình" button
saveBtn ==
  /\ ui.op = "idle"
  /\ saveConfig
  /\ UNCHANGED <<updVars, scanVars>>

\* the user edits the source entry
editSource(t) ==
  /\ ui.op = "idle"
  /\ sourceText' = t
  /\ UNCHANGED <<updVars, scanVars, configFile, updateSourcePath, saved, boots>>

\* what the head of tabUpdate leaves in updateSourcePath
LoadConfig(file) == IF file.present THEN TrimSpace(file.data) ELSE DefaultSource

\* the program is closed and started again: the globals and widgets are
\* built anew and the head of tabUpdate loads the configuration
tabUpdate ==
  /\ ui.op = "idle"
  /\ evq = <<>>
  /\ \A w \in 1 .. MaxWorkers : workers[w].pc = "free"
  /\ boots < MaxBoots
  /\ boots' = boots + 1
  /\ updateSourcePath' = LoadConfig(configFile)
  /\ sourceText' = updateSourcePath'
  /\ status' = "ready"
  /\ msg' = NoMsg
  /\ tally' = NoTally
  /\ lastDiff' = NoDiff
  /\ made' = NoName
  /\ selected' = refreshBackups(backupDir, NoName)
  /\ UNCHANGED <<source, srcReachable, target, clock, backupDir, ui, evq, workers,
                 ipcasUp, scanVars, configFile, saved>>

\* doCheck, up to the go statement (seq: the user waits for every
\* operation to end before the next tap on the tab)
doCheck(seq) ==
  /\ Take(Ev("check"))
  /\ seq => NoWorkers
  /\ Spawn("check")
  /\ status' = "checking"
  /\ saveConfig
  /\ UNCHANGED <<source, srcReachable, target, clock, backupDir, made, selected, ui,
                 msg, ipcasUp, tally, lastDiff, scanVars>>

\* doUpdate, up to the go statement
doUpdate(seq) ==
  /\ Take(Ev("update"))
  /\ seq => NoWorkers
  /\ Spawn("update")
  /\ status' = "checking"
  /\ saveConfig
  /\ UNCHANGED <<source, srcReachable, target, clock, backupDir, made, selected, ui,
                 msg, ipcasUp, tally, lastDiff, scanVars>>

MutWalkStep(w, faults) ==
  /\ workers[w].pc = "walk"
  /\ workers[w].pos <= Len(SourceWalk)
  /\ workers' = [workers EXCEPT ![w].pos = @ + 1]
  /\ target' = Put(target, SourceWalk[workers[w].pos], <<>>)
  /\ UNCHANGED <<source, srcReachable, clock, backupDir, made, selected, ui,
                 evq, status, msg, ipcasUp, tally, lastDiff, scanVars, cfgVars>>
\* one call of the WalkDir callback of getFilesToUpdate, for the next
\* source file
WalkStep(w, faults) ==
  /\ workers[w].pc = "walk"
  /\ workers[w].pos <= Len(SourceWalk)
  /\ \E srcReadable, tgtReadable \in Oks(faults) :
       LET relPath == SourceWalk[workers[w].pos]
           need    == NeedUpdate(source, target, relPath, srcReadable, tgtReadable)
       IN  workers' = [workers EXCEPT
                         ![w].pos = @ + 1,
                         ![w].toUpdate = IF need THEN Append(@, relPath) ELSE @,
                         ![w].clean = @ /\ srcReadable /\ tgtReadable,
                         ![w].unread = IF relPath \in DOMAIN target /\ ~tgtReadable
                                         THEN @ \cup {relPath} ELSE @,
                         ![w].hashed = IF Hashes(source, target, relPath)
                                         THEN @ \cup {relPath} ELSE @]
  /\ UNCHANGED <<source, srcReachable, target, clock, backupDir, made, selected, ui,
                 evq, status, msg, ipcasUp, tally, lastDiff, scanVars, cfgVars>>

\* the goroutine after getFilesToUpdate returned (files, err)
WalkDone(w) ==
  /\ workers[w].pc = "walk"
  /\ workers[w].pos > Len(SourceWalk)
  /\ LET me == workers[w] IN
     /\ lastDiff' = [after |-> me.after /\ me.clean /\ tally.clean,
                     files |-> me.toUpdate]
     /\ IF WalkRootErr # "nil"
          THEN status' = "conn_error" /\ workers' = [workers EXCEPT ![w] = FreeWorker]
        ELSE IF me.toUpdate = <<>>
          THEN status' = "up_to_date" /\ workers' = [workers EXCEPT ![w] = FreeWorker]
        ELSE IF me.kind = "check"
          THEN status' = "need_update" /\ workers' = [workers EXCEPT ![w] = FreeWorker]
        ELSE status' = status /\ workers' = [workers EXCEPT ![w].pc = "dialog"]
  /\ UNCHANGED <<source, srcReachable, target, clock, backupDir, made, selected, ui,
                 evq, msg, ipcasUp, tally, scanVars, cfgVars>>

\* ------------------------------------------------------------ Apply Engine
ExePath == 1                            \* the relative path "ipcas2.exe"

MutLaunchIPCAS(tgt, up) == up
\* launchIPCAS: started when the executable is in the target
launchIPCAS(tgt, up) == IF ExePath \in DOMAIN tgt THEN TRUE ELSE up

MutCopyFile(dst, src, relPath) == dst
MutCopyOnly(dst, src, relPath) == [q \in {relPath} |-> src[relPath]]
\* os.ReadFile(srcFile) then os.WriteFile(dstFile, data, 0644)
CopyFile(dst, src, relPath) == Put(dst, relPath, src[relPath])

\* the count of "Đã cập nhật %d file": len(files)
Reported(changeSet, t) == Len(changeSet)

MutStartSteps(before) == <<"killIPCAS">> \o before
\* the calls of a dialog callback up to the loop of performFilesUpdate:
\* what it does before performFilesUpdate(), then killIPCAS()
StartSteps(before) == before \o <<"killIPCAS">>

MutNextEntry(changeSet, i) == changeSet[Len(changeSet) + 1 - i]
\* "for i, relPath := range files": the entry of pass i
NextEntry(changeSet, i) == changeSet[i]

\* performFilesUpdate up to its loop: killIPCAS, progress bar, startTime
performStart(w, before) ==
  /\ ipcasUp' = FALSE
  /\ ui' = [op |-> "copy", files |-> workers[w].toUpdate, i |-> 1,
            arch |-> NoArch, fresh |-> workers[w].clean,
            steps |-> StartSteps(before), log |-> <<>>, prog |-> <<>>]
  /\ tally' = [NoTally EXCEPT !.op = "apply"]
  /\ workers' = [workers EXCEPT ![w] = FreeWorker]

\* the dialog's "Backup rồi Update": createBackup, its error only logged,
\* then performFilesUpdate
onBackupUpdate(w, faults) ==
  /\ Take(DlgEv("dlgBackup", w))
  /\ \E createOk \in Oks(faults) :
       IF createOk
         THEN \E removeOpen \in OpenRemovals(backupDir, clock) :
              \E unreadable \in Unreadable(faults, target) :
              /\ backupDir' = createBackup(backupDir, target, clock, unreadable, removeOpen)
              /\ made' = backupName(clock)
              /\ selected' = refreshBackups(backupDir', selected)
              /\ performStart(w, <<"createBackup">>)
         ELSE /\ UNCHANGED <<backupDir, made, selected>>
              /\ performStart(w, <<"createBackup failed">>)
  /\ status' = "backing_up"
  /\ UNCHANGED <<source, srcReachable, target, clock, msg, lastDiff, scanVars, cfgVars>>

\* the dialog's "Update luôn"
onUpdateOnly(w) ==
  /\ Take(DlgEv("dlgUpdate", w))
  /\ performStart(w, <<>>)
  /\ UNCHANGED <<source, srcReachable, target, clock, backupDir, made, selected,
                 status, msg, lastDiff, scanVars, cfgVars>>

\* the dialog's "Hủy"
onCancel(w) ==
  /\ Take(DlgEv("dlgCancel", w))
  /\ workers' = [workers EXCEPT ![w] = FreeWorker]
  /\ UNCHANGED <<source, srcReachable, target, clock, backupDir, made, selected, ui,
                 status, msg, ipcasUp, tally, lastDiff, scanVars, cfgVars>>

\* one pass of "for i, relPath := range files"
ApplyEntry(faults) ==
  /\ ui.op = "copy"
  /\ ui.i <= Len(ui.files)
  /\ \E outcome \in Outcomes(faults, {"read_err", "write_err"}) :
     LET relPath == NextEntry(ui.files, ui.i) IN
       IF outcome = "ok"
         THEN /\ target' = CopyFile(target, source, relPath)
              /\ tally' = [tally EXCEPT !.ok = @ + 1]
              /\ status' = "updating"
              /\ ui' = [ui EXCEPT !.i = @ + 1,
                                  !.log = Append(@, Line(relPath, "updated")),
                                  !.prog = Append(@, ui.i)]
         ELSE /\ tally' = [tally EXCEPT !.failed = @ + 1]
              /\ ui' = [ui EXCEPT !.i = @ + 1,
                                  !.log = Append(@, Line(relPath, outcome))]
              /\ UNCHANGED <<target, status>>
  /\ UNCHANGED <<source, srcReachable, clock, backupDir, made, selected, evq, workers,
                 msg, ipcasUp, lastDiff, scanVars, cfgVars>>

\* performFilesUpdate after its loop
ApplyFinish ==
  /\ ui.op = "copy"
  /\ ui.i > Len(ui.files)
  /\ status' = "update_done"
  /\ selected' = refreshBackups(backupDir, selected)
  /\ ipcasUp' = launchIPCAS(target, ipcasUp)
  /\ msg' = [title |-> "updated", n |-> Reported(ui.files, tally)]
  /\ tally' = [tally EXCEPT !.clean = ui.fresh /\ tally.failed = 0]
  /\ ui' = IdleUi
  /\ UNCHANGED <<source, srcReachable, target, clock, backupDir, made, evq, workers,
                 lastDiff, scanVars, cfgVars>>

\* ---------------------------------------------------------- Restore Engine
MutRestoreFile(dst, stored, name) == dst
\* f.Open, io.ReadAll, os.WriteFile(dstPath, data, 0644)
RestoreFile(dst, stored, name) == Put(dst, name, stored[name])

MutDoRestore(seq, faults) ==
  /\ Take(Ev("restore"))
  /\ seq => NoWorkers
  /\ IF selected = NoName
       THEN /\ msg' = [title |-> "no_backup_selected", n |-> 0]
            /\ UNCHANGED <<ui, ipcasUp, tally, target>>
       ELSE /\ ipcasUp' = FALSE
            /\ msg' = msg
            /\ \E readable \in Oks(faults) :
                 IF selected \in DOMAIN backupDir /\ readable
                   THEN /\ ui' = [op |-> "rcopy",
                                  files |-> SortedSeq(DOMAIN backupDir[selected].entries),
                                  i |-> 1, arch |-> backupDir[selected], fresh |-> FALSE,
                                  steps |-> <<"killIPCAS", "zip.OpenReader">>,
                                  log |-> <<>>, prog |-> <<>>]
                        /\ tally' = [NoTally EXCEPT !.op = "restore"]
                        /\ target' = target
                   ELSE /\ target' = NoTree
                        /\ UNCHANGED <<ui, tally>>
  /\ UNCHANGED <<source, srcReachable, clock, backupDir, made, selected,
                 workers, status, lastDiff, scanVars, cfgVars>>

\* doRestore up to its loop: the selection test, killIPCAS, zip.OpenReader
doRestore(seq, faults) ==
  /\ Take(Ev("restore"))
  /\ seq => NoWorkers
  /\ IF selected = NoName
       THEN /\ msg' = [title |-> "no_backup_selected", n |-> 0]
            /\ UNCHANGED <<ui, ipcasUp, tally>>
       ELSE /\ ipcasUp' = FALSE
            /\ msg' = msg
            /\ \E readable \in Oks(faults) :
                 IF selected \in DOMAIN backupDir /\ readable
                   THEN /\ ui' = [op |-> "rcopy",
                                  files |-> SortedSeq(DOMAIN backupDir[selected].entries),
                                  i |-> 1, arch |-> backupDir[selected], fresh |-> FALSE,
                                  steps |-> <<"killIPCAS", "zip.OpenReader">>,
                                  log |-> <<>>, prog |-> <<>>]
                        /\ tally' = [NoTally EXCEPT !.op = "restore"]
                   ELSE UNCHANGED <<ui, tally>>
  /\ UNCHANGED <<source, srcReachable, target, clock, backupDir, made, selected,
                 workers, status, lastDiff, scanVars, cfgVars>>

\* one pass of "for i, f := range r.File"
RestoreEntry(faults) ==
  /\ ui.op = "rcopy"
  /\ ui.i <= Len(ui.files)
  /\ \E outcome \in Outcomes(faults, {"open_err", "read_err", "write_err"}) :
     LET name == ui.files[ui.i] IN
       /\ IF outcome = "ok"
            THEN /\ target' = RestoreFile(target, ui.arch.entries, name)
                 /\ tally' = [tally EXCEPT !.ok = @ + 1]
            ELSE /\ target' = target
                 /\ tally' = [tally EXCEPT !.failed = @ + 1]
       \* the result of os.WriteFile is dropped: the pass goes on to
       \* addLog("Restore: ...") and SetValue as if the file were written
       /\ IF outcome \in {"ok", "write_err"}
            THEN ui' = [ui EXCEPT !.i = @ + 1,
                                  !.log = Append(@, Line(name, "restored")),
                                  !.prog = Append(@, ui.i)]
            ELSE ui' = [ui EXCEPT !.i = @ + 1,
                                  !.log = Append(@, Line(name, outcome))]
  /\ UNCHANGED <<source, srcReachable, clock, backupDir, made, selected, evq, workers,
                 status, msg, ipcasUp, lastDiff, scanVars, cfgVars>>

\* doRestore after its loop
RestoreFinish ==
  /\ ui.op = "rcopy"
  /\ ui.i > Len(ui.files)
  /\ status' = "restore_done"
  /\ ipcasUp' = launchIPCAS(target, ipcasUp)
  /\ msg' = [title |-> "restored", n |-> 0]
  /\ ui' = IdleUi
  /\ UNCHANGED <<source, srcReachable, target, clock, backupDir, made, selected, evq,
                 workers, tally, lastDiff, scanVars, cfgVars>>

\* the "Tạo Backup" button: createBackup, refreshBackups, showMsg
onCreateBackup(seq, faults) ==
  /\ Take(Ev("backup"))
  /\ seq => NoWorkers
  /\ \E createOk \in Oks(faults) :
       IF createOk
         THEN \E removeOpen \in OpenRemovals(backupDir, clock) :
              \E unreadable \in Unreadable(faults, target) :
              /\ backupDir' = createBackup(backupDir, target, clock, unreadable, removeOpen)
              /\ made' = backupName(clock)
              /\ selected' = refreshBackups(backupDir', selected)
              /\ msg' = [title |-> "backup_made", n |-> 0]
         ELSE /\ msg' = [title |-> "backup_error", n |-> 0]
              /\ UNCHANGED <<backupDir, made, selected>>
  /\ UNCHANGED <<source, srcReachable, target, clock, ui, workers, status,
                 ipcasUp, tally, lastDiff, scanVars, cfgVars>>

\* a tap that arrives while the event thread runs a callback, or behind
\* taps that already wait
Enqueue(e) ==
  /\ ~(Idle /\ evq = <<>>)
  /\ Len(evq) < MaxQueue
  /\ evq' = Append(evq, e)
  /\ IF e.w = 0
       THEN workers' = workers
       ELSE /\ workers[e.w].pc = "dialog"
            /\ workers' = [workers EXCEPT ![e.w].pc = "tapped"]
  /\ UNCHANGED <<source, srcReachable, target, clock, backupDir, made, selected, ui,
                 status, msg, ipcasUp, tally, lastDiff, scanVars, cfgVars>>

\* ------------------------------------------------------------ environment
\* a second passes
Tick ==
  /\ clock < StartClock + MaxTicks
  /\ clock' = clock + 1
  /\ UNCHANGED <<source, srcReachable, target, backupDir, made, selected, ui, evq,
                 workers, status, msg, ipcasUp, tally, lastDiff, scanVars, cfgVars>>

\* something outside the program writes, creates or deletes a target file,
\* between two operations
Mutate ==
  /\ Idle /\ evq = <<>> /\ NoWorkers
  /\ \E p \in Paths :
       \/ \E data \in Contents : target' = Put(target, p, data)
       \/ target' = Del(target, p)
  /\ target' # target
  /\ tally' = NoTally
  /\ UNCHANGED <<source, srcReachable, clock, backupDir, made, selected, ui, evq,
                 workers, status, msg, ipcasUp, lastDiff, scanVars, cfgVars>>

\* ------------------------------------------------------ hidden-file scan
\* scanDirs: which of %USERPROFILE%\\AppData\\Local\\VirtualStore and its
\* Windows subdirectory exist, and for the entries below each, in walk
\* order, whether the entry is a hidden ipcas2.ini
Entry(dir, k) == [dir |-> dir, k |-> k]

\* what filepath.Walk visits from a root: the root directory itself, then
\* the entries below it; the second root contains the first
OnDisk(e) == e \notin removed

WindowsVisits ==
  <<Entry("windows", 0)>>
  \o SelectSeq([k \in 1 .. Len(scanDirs.windows) |-> Entry("windows", k)], OnDisk)

Visits(root) ==
  IF root = 1
    THEN WindowsVisits
    ELSE <<Entry("store", 0)>>
         \o SelectSeq([k \in 1 .. Len(scanDirs.store) |-> Entry("store", k)], OnDisk)
         \o (IF scanDirs.exists = "both" THEN WindowsVisits ELSE <<>>)

\* os.Stat(p) of a root succeeds
RootExists(root) ==
  IF root = 1 THEN scanDirs.exists = "both" ELSE scanDirs.exists # "none"

\* strings.ToLower(info.Name()) == "ipcas2.ini" && isHidden(path)
IsMatch(e) ==
  /\ e.k > 0
  /\ IF e.dir = "windows" THEN scanDirs.windows[e.k] ELSE scanDirs.store[e.k]

RECURSIVE Settle(_, _)
\* the place of the next callback from (root, pos): roots that do not
\* exist and roots walked to their end are passed over; root 3 is the end
Settle(root, pos) ==
  IF root > 2 THEN <<3, 1>>
  ELSE IF RootExists(root) /\ pos <= Len(Visits(root)) THEN <<root, pos>>
  ELSE Settle(root + 1, 1)

\* scanBtn: the test of the flag, the new channel, files = nil, the go
\* statement
scanBtn ==
  /\ ~scanning
  /\ Len(closed) < MaxScans
  /\ scanning' = TRUE
  /\ closed' = Append(closed, 0)
  /\ stopChan' = Len(closed) + 1
  /\ files' = <<>>
  /\ scanners' = Append(scanners, [pc |-> "start", ch |-> 0, root |-> 1, pos |-> 1,
                                   r |-> <<>>, cut |-> FALSE])
  /\ picked' = {}
  /\ UNCHANGED <<updVars, cfgVars, scanDirs, removed>>

\* the goroutine evaluates scanFiles(stopChan)'s argument: it reads the
\* global when it gets to run
ScanBegin(g) ==
  /\ scanners[g].pc = "start"
  /\ stopChan # 0
  /\ scanners' = [scanners EXCEPT ![g].pc = "walk", ![g].ch = stopChan,
                                  ![g].root = Settle(1, 1)[1],
                                  ![g].pos = Settle(1, 1)[2]]
  /\ UNCHANGED <<updVars, cfgVars, scanDirs, scanning, stopChan, closed, files,
                 picked, removed>>

\* what scanFiles keeps of r when the walk callback has seen the stop
\* channel closed and returned filepath.SkipAll
StopResult(r) == r

\* one call of the filepath.Walk callback
ScanVisit(g) ==
  /\ scanners[g].pc = "walk"
  /\ scanners[g].root <= 2
  /\ LET me == scanners[g]
         e  == Visits(me.root)[me.pos]
     IN  IF closed[me.ch] > 0
           THEN scanners' = [scanners EXCEPT
                               ![g].root = Settle(me.root + 1, 1)[1],
                               ![g].pos  = Settle(me.root + 1, 1)[2],
                               ![g].r    = StopResult(me.r),
                               ![g].cut  = TRUE]
           ELSE scanners' = [scanners EXCEPT
                               ![g].root = Settle(me.root, me.pos + 1)[1],
                               ![g].pos  = Settle(me.root, me.pos + 1)[2],
                               ![g].r    = IF IsMatch(e) THEN Append(@, e) ELSE @]
  /\ UNCHANGED <<updVars, cfgVars, scanDirs, scanning, stopChan, closed, files,
                 picked, removed>>

\* the goroutine after scanFiles returned r
ScanReturn(g) ==
  /\ scanners[g].pc = "walk"
  /\ scanners[g].root > 2
  /\ scanning' = FALSE
  /\ files' = scanners[g].r
  /\ scanners' = [scanners EXCEPT ![g].pc = "returned"]
  /\ picked' = {}
  /\ UNCHANGED <<updVars, cfgVars, scanDirs, stopChan, closed, removed>>

MutStopBtn ==
  /\ scanning /\ stopChan # 0
  /\ closed' = [closed EXCEPT ![stopChan] = @ + 1]
  /\ UNCHANGED <<updVars, cfgVars, scanDirs, scanning, stopChan, scanners, files,
                 picked, removed>>

\* stopBtn
stopBtn ==
  /\ scanning /\ stopChan # 0
  /\ closed' = [closed EXCEPT ![stopChan] = @ + 1]
  /\ scanning' = FALSE
  /\ UNCHANGED <<updVars, cfgVars, scanDirs, stopChan, scanners, files, picked, removed>>

\* the check box of row k
toggle(k) ==
  /\ k \in DOMAIN files
  /\ picked' = (IF k \in picked THEN picked \ {k} ELSE picked \cup {k})
  /\ UNCHANGED <<updVars, cfgVars, scanDirs, scanning, stopChan, closed, scanners,
                 files, removed>>

\* selBtn: every row selected, or none when all were
selBtn ==
  /\ picked' = (IF picked = DOMAIN files THEN {} ELSE DOMAIN files)
  /\ UNCHANGED <<updVars, cfgVars, scanDirs, scanning, stopChan, closed, scanners,
                 files, removed>>

RECURSIVE DelLoop(_, _, _)
\* the first loop of the confirm callback from row k on: delFile on every
\* selected row; os.Remove fails on a path in locked and on a path that
\* is no longer on the disk
DelLoop(k, locked, acc) ==
  IF k > Len(files) THEN acc
  ELSE IF k \in picked /\ files[k] \notin locked /\ files[k] \notin acc.removed
    THEN DelLoop(k + 1, locked, [removed |-> acc.removed \cup {files[k]}, del |-> acc.del + 1])
  ELSE DelLoop(k + 1, locked, acc)

RECURSIVE Unselected(_)
\* the second loop from row k on: nf, the rows that are not selected
Unselected(k) ==
  IF k > Len(files) THEN <<>>
  ELSE (IF k \in picked THEN <<>> ELSE <<files[k]>>) \o Unselected(k + 1)

\* delBtn and the answer to its confirm dialog
delBtn(yes, locked) ==
  /\ IF picked = {}
       THEN /\ msg' = [title |-> "pick_first", n |-> 0]
            /\ UNCHANGED <<files, picked, removed>>
     ELSE IF yes
       THEN LET end == DelLoop(1, locked, [removed |-> removed, del |-> 0]) IN
            /\ removed' = end.removed
            /\ files' = Unselected(1)
            /\ picked' = {}
            /\ msg' = [title |-> "deleted", n |-> end.del]
     ELSE UNCHANGED <<files, picked, removed, msg>>
  /\ UNCHANGED <<source, srcReachable, target, clock, backupDir, selected, made, ui, evq,
                 workers, status, ipcasUp, tally, lastDiff, cfgVars, scanDirs, scanning,
                 stopChan, closed, scanners>>

\* ---------------------------------------------------------- specifications
NoFiles == [n \in {} |-> NoArch]       \* an empty backup directory

ScanIdle ==
  /\ scanDirs = <<>>
  /\ scanning = FALSE
  /\ stopChan = 0
  /\ closed = <<>>
  /\ scanners = <<>>
  /\ files = <<>>
  /\ picked = {}
  /\ removed = {}

\* the configuration a session that saved the default path left behind
CfgIdle ==
  /\ configFile = [present |-> TRUE, data |-> DefaultSource, writable |-> TRUE]
  /\ sourceText = DefaultSource
  /\ updateSourcePath = DefaultSource
  /\ saved = DefaultSource
  /\ boots = 0

UpdInit(reach, sources, targets, dirs) ==
  /\ srcReachable \in reach
  /\ source \in (IF srcReachable THEN sources ELSE {NoTree})
  /\ target \in targets
  /\ clock = StartClock
  /\ backupDir \in dirs
  /\ selected = refreshBackups(backupDir, NoName)
  /\ made = NoName
  /\ ui = IdleUi
  /\ evq = <<>>
  /\ workers = [w \in 1 .. MaxWorkers |-> FreeWorker]
  /\ status = "ready"
  /\ msg = NoMsg
  /\ ipcasUp = TRUE
  /\ tally = NoTally
  /\ lastDiff = NoDiff

\* the taps a user can make on the update tab
MainTaps == {Ev("check"), Ev("update"), Ev("restore"), Ev("backup")}
DlgTaps  == {DlgEv(k, w) : k \in {"dlgBackup", "dlgUpdate", "dlgCancel"},
                          w \in 1 .. MaxWorkers}

\* trees with every path present, all files alike
Same(data) == [p \in Paths |-> data]

\* the update tab under a user who taps at any time, no I/O failing
Init == UpdInit({TRUE}, {Same(<<1>>)}, {NoTree}, {NoFiles}) /\ ScanIdle /\ CfgIdle

Next ==
  \/ doCheck(FALSE)
  \/ doUpdate(FALSE)
  \/ doRestore(FALSE, FALSE)
  \/ onCreateBackup(FALSE, FALSE)
  \/ \E w \in 1 .. MaxWorkers : WalkStep(w, FALSE)
  \/ \E w \in 1 .. MaxWorkers : WalkDone(w)
  \/ \E w \in 1 .. MaxWorkers : onBackupUpdate(w, FALSE)
  \/ \E w \in 1 .. MaxWorkers : onUpdateOnly(w)
  \/ \E w \in 1 .. MaxWorkers : onCancel(w)
  \/ ApplyEntry(FALSE)
  \/ ApplyFinish
  \/ RestoreEntry(FALSE)
  \/ RestoreFinish
  \/ \E e \in MainTaps \cup DlgTaps : Enqueue(e)

Spec == Init /\ [][Next]_vars

\* the differ and the apply engine under a user who waits for each
\* operation, with I/O failures
SyncInit == UpdInit(BOOLEAN, Trees, Trees, {NoFiles}) /\ ScanIdle /\ CfgIdle

SyncNext ==
  \/ doCheck(TRUE)
  \/ doUpdate(TRUE)
  \/ \E w \in 1 .. MaxWorkers : WalkStep(w, TRUE)
  \/ \E w \in 1 .. MaxWorkers : WalkDone(w)
  \/ \E w \in 1 .. MaxWorkers : onUpdateOnly(w)
  \/ \E w \in 1 .. MaxWorkers : onCancel(w)
  \/ ApplyEntry(TRUE)
  \/ ApplyFinish

SyncSpec == SyncInit /\ [][SyncNext]_vars

\* backup and restore within one second of the clock, under a user who
\* waits for each operation, with I/O failures and outside changes of the
\* target
RestoreInit == UpdInit({TRUE}, {NoTree}, Trees, {NoFiles}) /\ ScanIdle /\ CfgIdle

RestoreNext ==
  \/ onCreateBackup(TRUE, TRUE)
  \/ doRestore(TRUE, TRUE)
  \/ RestoreEntry(TRUE)
  \/ RestoreFinish
  \/ Mutate

RestoreSpec == RestoreInit /\ [][RestoreNext]_vars

\* the backup directory over several seconds, under a user who waits for
\* each operation; the directory starts with any of these files in it
OldNames    == {backupName(StartClock - k) : k \in 1 .. Retention + 1}
LaterNames  == {backupName(StartClock + MaxTicks + k) : k \in 1 .. Retention}
OtherNames  == {BkPrefix \o Format(0) \o <<46, 98, 97, 107>>,   \* "BK_0000.bak"
                <<110>> \o ZipSuffix}                           \* "n.zip"
Dirs == {[n \in S |-> ArchiveOf(NoTree, {})] :
           S \in SUBSET (OldNames \cup LaterNames \cup OtherNames)}

BackupInit == UpdInit({TRUE}, {NoTree}, {NoTree}, Dirs) /\ ScanIdle /\ CfgIdle

BackupNext ==
  \/ onCreateBackup(TRUE, TRUE)
  \/ Tick

BackupSpec == BackupInit /\ [][BackupNext]_vars

\* an update with its dialog, one operation at a time, with I/O failures
\* in the copy loop
ApplyInit == UpdInit({TRUE}, Trees, Trees, {NoFiles}) /\ ScanIdle /\ CfgIdle

ApplyNext ==
  \/ doUpdate(TRUE)
  \/ \E w \in 1 .. MaxWorkers : WalkStep(w, FALSE)
  \/ \E w \in 1 .. MaxWorkers : WalkDone(w)
  \/ \E w \in 1 .. MaxWorkers : onBackupUpdate(w, FALSE)
  \/ \E w \in 1 .. MaxWorkers : onUpdateOnly(w)
  \/ \E w \in 1 .. MaxWorkers : onCancel(w)
  \/ ApplyEntry(TRUE)
  \/ ApplyFinish

ApplySpec == ApplyInit /\ [][ApplyNext]_vars

\* an update with a backup first, the backup failing or not, with I/O
\* failures in the copy loop
FailInit == UpdInit({TRUE}, Trees, Trees, {NoFiles}) /\ ScanIdle /\ CfgIdle

FailNext ==
  \/ doUpdate(TRUE)
  \/ \E w \in 1 .. MaxWorkers : WalkStep(w, FALSE)
  \/ \E w \in 1 .. MaxWorkers : WalkDone(w)
  \/ \E w \in 1 .. MaxWorkers : onBackupUpdate(w, TRUE)
  \/ ApplyEntry(TRUE)
  \/ ApplyFinish

FailSpec == FailInit /\ [][FailNext]_vars

\* every operation of the update tab, under a user who waits for each
\* one to end, no I/O failing
EngineInit == UpdInit({TRUE}, Trees, Trees, {NoFiles}) /\ ScanIdle /\ CfgIdle

EngineNext ==
  \/ doCheck(TRUE)
  \/ doUpdate(TRUE)
  \/ \E w \in 1 .. MaxWorkers : WalkStep(w, FALSE)
  \/ \E w \in 1 .. MaxWorkers : WalkDone(w)
  \/ \E w \in 1 .. MaxWorkers : onBackupUpdate(w, FALSE)
  \/ \E w \in 1 .. MaxWorkers : onUpdateOnly(w)
  \/ \E w \in 1 .. MaxWorkers : onCancel(w)
  \/ ApplyEntry(FALSE)
  \/ ApplyFinish
  \/ onCreateBackup(TRUE, FALSE)
  \/ doRestore(TRUE, FALSE)
  \/ RestoreEntry(FALSE)
  \/ RestoreFinish

EngineSpec == EngineInit /\ [][EngineNext]_vars

\* the configuration of the update tab: the user edits the source entry,
\* saves, checks and updates against an empty source, and starts the
\* program again; the config file can or cannot be written
ConfigInit ==
  /\ UpdInit({TRUE}, {NoTree}, {NoTree}, {NoFiles})
  /\ ScanIdle
  /\ configFile \in {NoConfig(writable) : writable \in BOOLEAN}
  /\ sourceText = DefaultSource
  /\ updateSourcePath = DefaultSource
  /\ saved = NoSave
  /\ boots = 0

ConfigNext ==
  \/ \E t \in Texts : editSource(t)
  \/ saveBtn
  \/ doCheck(TRUE)
  \/ doUpdate(TRUE)
  \/ \E w \in 1 .. MaxWorkers : WalkDone(w)
  \/ tabUpdate

ConfigSpec == ConfigInit /\ [][ConfigNext]_vars

\* the scan tab
Flags == UNION {[1 .. n -> BOOLEAN] : n \in 0 .. MaxEntries}

ScanInit ==
  /\ UpdInit({TRUE}, {NoTree}, {NoTree}, {NoFiles})
  /\ CfgIdle
  /\ scanDirs \in [exists : {"none", "store", "both"}, windows : Flags, store : Flags]
  /\ scanDirs.exists # "both" => scanDirs.windows = <<>>
  /\ scanDirs.exists = "none" => scanDirs.store = <<>>
  /\ scanning = FALSE
  /\ stopChan = 0
  /\ closed = <<>>
  /\ scanners = <<>>
  /\ files = <<>>
  /\ picked = {}
  /\ removed = {}

ScanNext ==
  \/ scanBtn
  \/ stopBtn
  \/ \E g \in DOMAIN scanners : ScanBegin(g)
  \/ \E g \in DOMAIN scanners : ScanVisit(g)
  \/ \E g \in DOMAIN scanners : ScanReturn(g)

ScanSpec == ScanInit /\ [][ScanNext]_vars

\* what an unstopped scan returns
FullScan ==
  SelectSeq((IF RootExists(1) THEN Visits(1) ELSE <<>>)
            \o (IF RootExists(2) THEN Visits(2) ELSE <<>>), IsMatch)

\* the scan tab after one scan that ran to its end: the user selects rows
\* and deletes them, and any of the files can refuse to be removed
DeleteInit ==
  /\ UpdInit({TRUE}, {NoTree}, {NoTree}, {NoFiles})
  /\ CfgIdle
  /\ scanDirs \in [exists : {"none", "store", "both"}, windows : Flags, store : Flags]
  /\ scanDirs.exists # "both" => scanDirs.windows = <<>>
  /\ scanDirs.exists = "none" => scanDirs.store = <<>>
  /\ removed = {}
  /\ picked = {}
  /\ scanning = FALSE
  /\ stopChan = 1
  /\ closed = <<0>>
  /\ files = FullScan
  /\ scanners = <<[pc |-> "returned", ch |-> 1, root |-> 3, pos |-> 1,
                   r |-> files, cut |-> FALSE]>>

DeleteNext ==
  \/ \E k \in DOMAIN files : toggle(k)
  \/ selBtn
  \/ \E yes \in BOOLEAN, locked \in SUBSET {files[k] : k \in picked} :
       delBtn(yes, locked)

DeleteSpec == DeleteInit /\ [][DeleteNext]_vars

\* ------------------------------------------------------------------ claims
\* the restore loop has run over every stored entry with no failure, from
\* an archive whose backup read every file
RestoredClean ==
  /\ ui.op = "rcopy"
  /\ ui.i > Len(ui.files)
  /\ tally.failed = 0
  /\ ui.arch.full

\* C1 (as stated): after a restore from a backup of tree T the target holds
\* exactly the files and contents of T: none missing, none differing, none
\* extra.
C1_TargetEqualsSnapshot == RestoredClean => target = ui.arch.snap

\* C1 (amended): after a restore from a backup of tree T, with no I/O
\* failure in the backup or the restore, every file of T is in the target
\* with the content it had in T; files that are not in T stay.
C1_SnapshotFilesRestored ==
  RestoredClean =>
    \A p \in DOMAIN ui.arch.snap : p \in DOMAIN target /\ target[p] = ui.arch.snap[p]

\* such a restore of a non-empty tree, into a target that was changed after
\* the backup and still holds a file T did not have
C1_Witness ==
  /\ RestoredClean
  /\ ui.arch.snap # NoTree
  /\ DOMAIN target \ DOMAIN ui.arch.snap # {}

\* an Apply or a Restore is between its start and its end
InFlight == ui.op \in {"copy", "rcopy"}

\* the taps that start an Apply or a Restore
StartsWrite(e) == e.kind \in {"restore", "dlgBackup", "dlgUpdate"}

\* C2: while an Apply or a Restore is in flight, a request to start another
\* one is rejected: it is neither started nor kept waiting to start later.
C2_SecondRequestRejected ==
  InFlight => \A k \in 1 .. Len(evq) : ~StartsWrite(evq[k])

\* C3: when the source root is unreachable the check ends in the connection
\* error; it is never reported as "already up to date".
C3_UnreachableIsError ==
  ~srcReachable => status \in {"ready", "checking", "conn_error"}

\* C5: no check goroutine is inside its tree walk while an Apply or a
\* Restore is between its first and its last file write.
C5_NoWalkDuringWrites ==
  ~ /\ InFlight
    /\ 1 < ui.i /\ ui.i <= Len(ui.files)
    /\ \E w \in 1 .. MaxWorkers :
         workers[w].pc = "walk" /\ workers[w].pos <= Len(SourceWalk)

\* C6: the number the final message of an update reports as updated is the
\* number of entries that were written to the target.
C6_ReportedIsWritten ==
  (Idle /\ tally.op = "apply" /\ msg.title = "updated") => msg.n = tally.ok

\* C9: an archive in the backup directory never changes its content; it
\* can only be deleted.
C9_ArchiveImmutable ==
  [][\A n \in DOMAIN backupDir \cap DOMAIN backupDir' :
       backupDir'[n].entries = backupDir[n].entries]_vars

\* C10: a walk that starts after an Apply has written every entry of the
\* change set of a walk, with no I/O failure in either walk or in the
\* Apply, and the target untouched since, returns no file.
C10_SecondDiffEmpty == lastDiff.after => lastDiff.files = <<>>

\* such a second walk, after an Apply that wrote both files
C10_Witness == lastDiff.after /\ tally.ok = 2

\* the archives a listing of the directory shows
BkNames(dir) == {n \in DOMAIN dir : IsBackupName(n)}

\* the second an archive name was formatted from
Times     == 0 .. StartClock + MaxTicks + Retention
TimeOf(n) == CHOOSE t \in Times : backupName(t) = n
Smaller(a, b) == IF a < b THEN a ELSE b

\* C7: a createBackup leaves min(3, number of archives) archives, the ones
\* with the greatest timestamps, and deletes no file that is not an archive.
C7_RetentionKeepsNewest ==
  [][backupDir' # backupDir =>
       LET all  == BkNames(backupDir) \cup {made'}
           kept == BkNames(backupDir')
       IN  /\ Cardinality(kept) = Smaller(Retention, Cardinality(all))
           /\ \A k \in kept, d \in all \ kept : TimeOf(d) < TimeOf(k)
           /\ \A n \in DOMAIN backupDir :
                ~IsBackupName(n) => n \in DOMAIN backupDir']_vars

C4_CancelledScanEmpty ==
  [][\A g \in DOMAIN scanners :
       (scanners[g].cut /\ scanners[g].pc = "walk" /\ scanners'[g].pc = "returned")
         => files' = <<>>]_vars

\* the source files a walk has passed, and whether it put one on its list
Visited(w)   == {SourceWalk[k] : k \in 1 .. workers[w].pos - 1}
Listed(w, p) == \E k \in 1 .. Len(workers[w].toUpdate) : workers[w].toUpdate[k] = p
Walking(w)   == workers[w].pc = "walk"

Identical ==
  \A p \in DOMAIN source : p \in DOMAIN target /\ target[p] = source[p]

\* C12: when every source file has a target counterpart of the same path,
\* size and content, a walk lists no file, whatever else the target holds.
C12_IdenticalTreesEmpty ==
  \A w \in 1 .. MaxWorkers :
    (Walking(w) /\ Identical) => workers[w].toUpdate = <<>>

\* a walk over a non-empty source that ended so, with a file only the
\* target has
C12_Witness ==
  \E w \in 1 .. MaxWorkers :
    /\ Walking(w) /\ Identical /\ srcReachable
    /\ workers[w].pos > Len(SourceWalk)
    /\ source # NoTree
    /\ DOMAIN target \ DOMAIN source # {}

\* C13: a passed source file whose target exists is listed when the sizes
\* differ and, when they are equal, exactly when the content hashes
\* differ; no hash is computed when the sizes differ or the target is
\* missing.
C13_ThreeTierDetection ==
  \A w \in 1 .. MaxWorkers :
    Walking(w) =>
      \A p \in Visited(w) :
        /\ p \in DOMAIN target =>
             IF Len(source[p]) # Len(target[p])
               THEN Listed(w, p)
               ELSE Listed(w, p) <=> Md5(source[p]) # Md5(target[p])
        /\ p \in workers[w].hashed =>
             p \in DOMAIN target /\ Len(source[p]) = Len(target[p])

\* C16: every file that was under the target when an archive was made is
\* in the archive with its full content, or is named in a failure line of
\* that createBackup's log.
C16_BackupFailuresLogged ==
  \A n \in DOMAIN backupDir :
    \A p \in DOMAIN backupDir[n].snap :
      \/ p \in DOMAIN backupDir[n].entries
            /\ backupDir[n].entries[p] = backupDir[n].snap[p]
      \/ p \in backupDir[n].logged

\* C14: while an Apply or a Restore runs its loop, the fractions the loop
\* has given to the progress bar are 1/total, 2/total, ... one for every
\* entry passed, failed entries included.
C14_ProgressPerEntry ==
  InFlight => ui.prog = [k \in 1 .. ui.i - 1 |-> k]

\* the passes of the running loop that logged the given line
Logged(line) == {k \in 1 .. Len(ui.log) : ui.log[k].line = line}

\* C15: in a Restore every entry passed has its line in the log, and the
\* entries logged as restored are the entries that were written: an entry
\* whose open, read or write failed is logged as a failure.
C15_RestoreFailuresLogged ==
  ui.op = "rcopy" =>
    /\ Len(ui.log) = ui.i - 1
    /\ Cardinality(Logged("restored")) = tally.ok

\* C17: the event thread never runs the loop of an Apply or of a Restore
\* itself: it only dispatches them.
C17_EngineOffEventThread == ui.op \notin {"copy", "rcopy"}

\* the places of a call in the steps of a callback
Places(steps, call) == {k \in 1 .. Len(steps) : steps[k] = call}

\* C18: an Apply keeps the order of its steps: a backup that was chosen is
\* made before the process is stopped, the process is stopped before the
\* first target file is written, and the process is launched again only
\* after every entry of the change set has been attempted.
C18_ApplyOrder ==
  [][/\ ui'.op = "copy" =>
          /\ Places(ui'.steps, "killIPCAS") # {}
          /\ \A b \in Places(ui'.steps, "createBackup"),
                k \in Places(ui'.steps, "killIPCAS") : b < k
     /\ (ui.op = "copy" /\ target' # target) =>
          Places(ui.steps, "killIPCAS") # {} /\ ~ipcasUp
     /\ (ui.op = "copy" /\ ipcasUp' /\ ~ipcasUp) =>
          ui.i > Len(ui.files)]_vars

\* an Apply with a backup, at the end of its loop over two entries, the
\* executable in the target
C18_Witness ==
  /\ ui.op = "copy"
  /\ ui.steps = <<"createBackup", "killIPCAS">>
  /\ Len(ui.files) = 2 /\ ui.i > 2
  /\ ExePath \in DOMAIN target
  /\ ~ipcasUp

\* what C19 says of an Apply inside its loop
Tolerant ==
  /\ Len(ui.log) = ui.i - 1
  /\ \A e \in 1 .. ui.i - 1 :
       Cardinality({k \in 1 .. Len(ui.log) : ui.log[k].name = ui.files[e]}) = 1
  /\ Cardinality(Logged("read_err") \cup Logged("write_err")) = tally.failed
  /\ \A k \in Logged("updated") :
       LET p == ui.log[k].name
       IN  p \in DOMAIN target /\ target[p] = source[p]

\* C19: in an Apply every entry passed was attempted once, every failure
\* has its line in the log, every entry that did not fail has the
\* source's content in the target, and the loop ends only after the last
\* entry.
C19_ApplyTolerant ==
  [][/\ ui'.op = "copy" => Tolerant'
     /\ (ui.op = "copy" /\ ui'.op # "copy") => ui.i > Len(ui.files)]_vars

\* an Apply at the end of its loop, one entry failed and one written
C19_Witness ==
  /\ ui.op = "copy" /\ ui.i > Len(ui.files)
  /\ tally.failed = 1 /\ tally.ok = 1

\* C20: an Apply attempts the entries in the order the walk listed them:
\* the entries passed so far are the first ones of the change set, in its
\* order.
C20_ApplyInDiffOrder ==
  ui.op = "copy" =>
    /\ ui.files = lastDiff.files
    /\ [k \in 1 .. Len(ui.log) |-> ui.log[k].name] = SubSeq(ui.files, 1, ui.i - 1)

\* an Apply past both entries of a change set of two
C20_Witness ==
  /\ ui.op = "copy"
  /\ Len(ui.files) = 2 /\ Len(ui.log) = 2

\* C21: no step changes a file of the source, and a step that changes a
\* file of the target is a pass of the copy loop of an Apply or of a
\* Restore: a walk and a createBackup leave both trees as they are.
C21_OnlyApplyRestoreWrite ==
  [][/\ source' = source
     /\ target' # target =>
          /\ ui.op \in {"copy", "rcopy"}
          /\ ui'.i = ui.i + 1]_vars

\* a walk has listed files and a backup was made, the target untouched
C21_Witness ==
  /\ lastDiff.files # <<>>
  /\ made # NoName
  /\ target = NoTree
  /\ source # NoTree

\* the running Apply follows a createBackup that returned an error
BackupFailed == ui.op = "copy" /\ Places(ui.steps, "createBackup failed") # {}

\* C22: an Apply that follows a failed createBackup has stopped the
\* process, ends only after a pass for every entry of the change set, and
\* ends with the launch of the process when its executable is there.
C22_BackupFailureNoAbort ==
  [][/\ BackupFailed' =>
          Places(ui'.steps, "killIPCAS") # {} /\ ~ipcasUp'
     /\ (BackupFailed /\ ui'.op # "copy") =>
          /\ ui.i > Len(ui.files)
          /\ Len(ui.log) = Len(ui.files)
          /\ ipcasUp' = (ExePath \in DOMAIN target')]_vars

\* such an Apply at the end of its loop over two entries, the executable
\* in the target
C22_Witness ==
  /\ BackupFailed
  /\ Len(ui.files) = 2 /\ ui.i > 2
  /\ ExePath \in DOMAIN target

\* C23: every save (the save button, a check, an update) leaves the config
\* file holding the text saved, and the path a start of the program loads
\* is the text last saved, or the built-in default when nothing was saved
C23_ConfigRoundTrip ==
  [][/\ saved' # NoSave => configFile'.present /\ configFile'.data = saved'
     /\ boots' # boots =>
          updateSourcePath' = (IF saved = NoSave THEN DefaultSource ELSE saved)]_vars

\* a step in which an operation that stopped the process ends: the thread
\* is idle after it and the process is down, and before it an operation
\* was running or the process was still up
EndsStopped ==
  /\ ui'.op = "idle" /\ ~ipcasUp'
  /\ ui.op # "idle" \/ ipcasUp

\* C24: no Apply and no Restore that stopped the process ends without the
\* launch step, which starts the process when ipcas2.exe is in the target:
\* an operation ends with the process down only if the executable is absent.
C24_KillThenRelaunch ==
  [][EndsStopped => ExePath \notin DOMAIN target']_vars

\* the scan workers started and not yet returned from scanFiles
Unreturned == {g \in DOMAIN scanners : scanners[g].pc \in {"start", "walk"}}

\* C25: at most one scan worker is walking at any time: no worker is
\* started while an earlier one has not returned from its walk.
C25_OneScanWorker == Cardinality(Unreturned) <= 1

\* the worker of the latest Scan press has not returned and the channel
\* that press made is open
LatestRunning ==
  /\ scanners # <<>>
  /\ Len(scanners) \in Unreturned
  /\ closed[Len(closed)] = 0

\* C26: the flag is true while the worker of the latest scan walks
\* unstopped, and the return of a worker of an earlier scan changes neither
\* the flag nor the file list.
C26_FlagFollowsLatestScan ==
  [][/\ LatestRunning' => scanning'
     /\ \A g \in DOMAIN scanners :
          (g < Len(scanners) /\ scanners[g].pc = "walk"
             /\ scanners'[g].pc = "returned") =>
            scanning' = scanning /\ files' = files]_vars

\* C27: no channel a Scan press made is closed more than once.
C27_ClosedAtMostOnce == \A c \in DOMAIN closed : closed[c] <= 1

\* two scans, each stopped by a Stop press
C27_Witness == Len(closed) = 2 /\ closed[1] = 1 /\ closed[2] = 1

\* the paths of a change set
Named(changeSet) == {changeSet[k] : k \in DOMAIN changeSet}

\* between this state and the next no file is deleted, and every path
\* outside the change set exists or not, and holds, what it did
Kept(changeSet) ==
  /\ DOMAIN target \subseteq DOMAIN target'
  /\ \A p \in Paths \ Named(changeSet) :
       /\ p \in DOMAIN target' <=> p \in DOMAIN target
       /\ p \in DOMAIN target => target'[p] = target[p]

\* C28: Apply only adds or overwrites files named in the change set: over
\* every step of an Apply, from the stop of the process to the launch, no
\* target file is deleted and every path outside the change set keeps its
\* existence and content.
C28_ApplyFrame ==
  [][/\ ui.op = "copy" => Kept(ui.files)
     /\ (ui.op # "copy" /\ ui'.op = "copy") => target' = target]_vars

\* the loop of an Apply is over, it wrote a file, and the target holds a
\* file that the source does not have
C28_Witness ==
  /\ ui.op = "copy" /\ ui.i > Len(ui.files)
  /\ tally.ok >= 1
  /\ DOMAIN target \ (DOMAIN source \cup Named(ui.files)) # {}

\* a step of the delete handler: rows leave the list while rows are
\* selected and no scan starts or returns
Deleting == picked # {} /\ Len(files') < Len(files) /\ scanners' = scanners

\* C29: 'delete selected' removes a row from the list only if its file was
\* removed from the disk, and the count it reports is the number of rows
\* removed.
C29_RemovedOnlyIfDeleted ==
  [][Deleting =>
       /\ \A k \in picked : files[k] \in removed'
       /\ msg'.n = Len(files) - Len(files')]_vars

\* a step of a Restore that stopped the process and did not get to its
\* loop: the thread is idle before and after, and the process goes down
OpenFailed == ui.op = "idle" /\ ui'.op = "idle" /\ ipcasUp /\ ~ipcasUp'

\* C30: a Restore whose archive cannot be opened ends there: the target
\* and the backups are as they were before the request, and the thread is
\* idle with no worker changed, ready for the next request.
C30_OpenFailureLeavesTarget ==
  [][OpenFailed =>
       /\ target' = target
       /\ backupDir' = backupDir /\ selected' = selected
       /\ ui' = IdleUi /\ workers' = workers]_vars

\* after such a Restore and no other: the process is down with its
\* executable in the target, a backup is selected, no Restore got to
\* its loop
C30_Witness ==
  /\ ui.op = "idle" /\ ~ipcasUp
  /\ tally.op # "restore"
  /\ selected # NoName
  /\ ExePath \in DOMAIN target

====
